---- MODULE Spec2Model ----
(***************************************************************************)
(* Unbeatable tic-tac-toe (src/tic-tac-toe.py): the outcome evaluator      *)
(* check_winner, the alpha-beta search minimax, the move selector          *)
(* best_move and the Tk handlers handle_click, ai_move, start_ai_first and *)
(* reset_game, as a state machine over the module's globals.               *)
(***************************************************************************)
EXTENDS Integers, Sequences, FiniteSets, TLC

VARIABLES
    board,            \* global board: board[i][j] \in {" ", "X", "O"}
    buttons,          \* the grid buttons: text and background of each
    current_player,   \* global current_player
    is_empty_grid,    \* global is_empty_grid
    ai_start_button,  \* state of the "AI Starts" button
    status_label,     \* text of status_label
    timers,           \* pending root.after(1500, reset_game) callbacks
    call,             \* the call or UI event last dispatched, with its arguments
    ret               \* what that call returned

vars == <<board, buttons, current_player, is_empty_grid, ai_start_button,
          status_label, timers, call, ret>>

----------------------------------------------------------------------------
(* Bounds of the model *)

\* at most this many delayed reset_game callbacks are pending at once
MaxTimers == 2

\* minimax is called on its own with depth in 0..MaxDepth
MaxDepth == 1

\* minimax is called on its own on boards with at most this many Empty cells
MaxSearchEmpty == 4

\* best_move is called on its own on boards with at most this many Empty cells
MaxEmpty == 6

----------------------------------------------------------------------------
(* Data *)

Idx == 0..2

Empty == " "

Cells == {Empty, "X", "O"}

\* math.inf: larger than every score minimax can return
Inf == 1000

None == "None"

\* the move None of best_move
NoMove == <<>>

BG_NORMAL == "#ade8f4"

BG_WIN == "#ff4500"

EmptyBoard == [i \in Idx |-> [j \in Idx |-> Empty]]

ClearButtons == [i \in Idx |-> [j \in Idx |-> [text |-> "", bg |-> BG_NORMAL]]]

AllBoards == [Idx -> [Idx -> Cells]]

Max(a, b) == IF a > b THEN a ELSE b

Min(a, b) == IF a < b THEN a ELSE b

\* board[i][j] = v
Place(b, i, j, v) == [b EXCEPT ![i][j] = v]

----------------------------------------------------------------------------
(* check_winner *)

RECURSIVE CheckLines(_, _)

\* check_winner's scan changed: the anti-diagonal is left out
CheckLinesNoAnti(b, i) ==
    IF i <= 2
    THEN IF b[i][0] = b[i][1] /\ b[i][1] = b[i][2] /\ b[i][0] # Empty
         THEN [winner |-> b[i][0], positions |-> <<<<i, 0>>, <<i, 1>>, <<i, 2>>>>]
         ELSE IF b[0][i] = b[1][i] /\ b[1][i] = b[2][i] /\ b[0][i] # Empty
         THEN [winner |-> b[0][i], positions |-> <<<<0, i>>, <<1, i>>, <<2, i>>>>]
         ELSE CheckLines(b, i + 1)
    ELSE IF b[0][0] = b[1][1] /\ b[1][1] = b[2][2] /\ b[0][0] # Empty
         THEN [winner |-> b[0][0], positions |-> <<<<0, 0>>, <<1, 1>>, <<2, 2>>>>]
         ELSE [winner |-> None, positions |-> <<>>]

\* check_winner's scan changed: a loop over the rows, then one over the columns
CheckLinesRowsFirst(b, i) ==
    IF i <= 2
    THEN IF b[i][0] = b[i][1] /\ b[i][1] = b[i][2] /\ b[i][0] # Empty
         THEN [winner |-> b[i][0], positions |-> <<<<i, 0>>, <<i, 1>>, <<i, 2>>>>]
         ELSE CheckLines(b, i + 1)
    ELSE IF i <= 5
    THEN IF b[0][i - 3] = b[1][i - 3] /\ b[1][i - 3] = b[2][i - 3] /\ b[0][i - 3] # Empty
         THEN [winner |-> b[0][i - 3],
               positions |-> <<<<0, i - 3>>, <<1, i - 3>>, <<2, i - 3>>>>]
         ELSE CheckLines(b, i + 1)
    ELSE IF b[0][0] = b[1][1] /\ b[1][1] = b[2][2] /\ b[0][0] # Empty
         THEN [winner |-> b[0][0], positions |-> <<<<0, 0>>, <<1, 1>>, <<2, 2>>>>]
         ELSE IF b[0][2] = b[1][1] /\ b[1][1] = b[2][0] /\ b[0][2] # Empty
         THEN [winner |-> b[0][2], positions |-> <<<<0, 2>>, <<1, 1>>, <<2, 0>>>>]
         ELSE [winner |-> None, positions |-> <<>>]

\* check_winner's scan changed: column i is tested before row i
CheckLinesColumnFirst(b, i) ==
    IF i <= 2
    THEN IF b[0][i] = b[1][i] /\ b[1][i] = b[2][i] /\ b[0][i] # Empty
         THEN [winner |-> b[0][i], positions |-> <<<<0, i>>, <<1, i>>, <<2, i>>>>]
         ELSE IF b[i][0] = b[i][1] /\ b[i][1] = b[i][2] /\ b[i][0] # Empty
         THEN [winner |-> b[i][0], positions |-> <<<<i, 0>>, <<i, 1>>, <<i, 2>>>>]
         ELSE CheckLines(b, i + 1)
    ELSE IF b[0][0] = b[1][1] /\ b[1][1] = b[2][2] /\ b[0][0] # Empty
         THEN [winner |-> b[0][0], positions |-> <<<<0, 0>>, <<1, 1>>, <<2, 2>>>>]
         ELSE IF b[0][2] = b[1][1] /\ b[1][1] = b[2][0] /\ b[0][2] # Empty
         THEN [winner |-> b[0][2], positions |-> <<<<0, 2>>, <<1, 1>>, <<2, 0>>>>]
         ELSE [winner |-> None, positions |-> <<>>]

\* the loop "for i in range(3)": row i, then column i; then the diagonals
CheckLines(b, i) ==
    IF i <= 2
    THEN IF b[i][0] = b[i][1] /\ b[i][1] = b[i][2] /\ b[i][0] # Empty
         THEN [winner |-> b[i][0], positions |-> <<<<i, 0>>, <<i, 1>>, <<i, 2>>>>]
         ELSE IF b[0][i] = b[1][i] /\ b[1][i] = b[2][i] /\ b[0][i] # Empty
         THEN [winner |-> b[0][i], positions |-> <<<<0, i>>, <<1, i>>, <<2, i>>>>]
         ELSE CheckLines(b, i + 1)
    ELSE IF b[0][0] = b[1][1] /\ b[1][1] = b[2][2] /\ b[0][0] # Empty
         THEN [winner |-> b[0][0], positions |-> <<<<0, 0>>, <<1, 1>>, <<2, 2>>>>]
         ELSE IF b[0][2] = b[1][1] /\ b[1][1] = b[2][0] /\ b[0][2] # Empty
         THEN [winner |-> b[0][2], positions |-> <<<<0, 2>>, <<1, 1>>, <<2, 0>>>>]
         ELSE [winner |-> None, positions |-> <<>>]

\* check_winner changed: only the first row is searched for an Empty cell
check_winner_first_row(b) ==
    LET line == CheckLines(b, 0)
    IN  IF line.winner # None THEN line
        ELSE IF \E j \in Idx : b[0][j] = Empty
        THEN [winner |-> None, positions |-> <<>>]
        ELSE [winner |-> "Draw", positions |-> <<>>]

check_winner(b) ==
    LET line == CheckLines(b, 0)
    IN  IF line.winner # None THEN line
        ELSE IF \E i \in Idx : \E j \in Idx : b[i][j] = Empty
        THEN [winner |-> None, positions |-> <<>>]
        ELSE [winner |-> "Draw", positions |-> <<>>]

----------------------------------------------------------------------------
(* minimax: returns the score and the board as the call leaves it.  The    *)
(* cells are numbered 1..9 in the loops' row-major order, and 10 stands    *)
(* for the end of the loops.  The state s of a branch's loops is the       *)
(* call's board, depth, best_score, alpha and beta, and k, the cell whose  *)
(* body runs next.  The loops, their bodies and the body of minimax are    *)
(* functions of their state: TLC evaluates a function's argument once,     *)
(* before the call.                                                        *)

RECURSIVE minimax(_, _, _, _, _)

RowOf(k) == (k - 1) \div 3

ColOf(k) == (k - 1) % 3

\* the condition of the loops' "if": the first cell from k on that is Empty
NextEmpty(b, k) ==
    CHOOSE n \in k..10 :
        /\ n = 10 \/ b[RowOf(n)][ColOf(n)] = Empty
        /\ \A m \in k..(n - 1) : b[RowOf(m)][ColOf(m)] # Empty

\* "break" leaves the inner loop only: the scan goes on at the row after k's
AfterBreak(k) == 3 * (RowOf(k) + 1) + 1

\* the cell after k's body: brk tells whether the body ended in "break"
NextCell(b, k, brk) == NextEmpty(b, IF brk THEN AfterBreak(k) ELSE k + 1)

LoopStates ==
    [board : AllBoards, depth : Nat, best_score : Int, alpha : Int, beta : Int,
     k : 1..10]

\* what a call returns and the board it leaves
Results == [score : Int, board : AllBoards]

\* MaxUpdate changed: the cell is restored after the pruning test, so that
\* the break skips the restore
MaxUpdateLeak(s, r) ==
    [board |-> IF s.beta <= Max(s.alpha, r.score)
               THEN r.board ELSE Place(r.board, RowOf(s.k), ColOf(s.k), Empty),
     depth |-> s.depth,
     best_score |-> Max(s.best_score, r.score),
     alpha |-> Max(s.alpha, r.score),
     beta |-> s.beta,
     k |-> NextCell(s.board, s.k, s.beta <= Max(s.alpha, r.score))]

\* the body of the maximizing loops once the recursive call has returned r
MaxUpdate(s, r) ==
    [board |-> Place(r.board, RowOf(s.k), ColOf(s.k), Empty),
     depth |-> s.depth,
     best_score |-> Max(s.best_score, r.score),
     alpha |-> Max(s.alpha, r.score),
     beta |-> s.beta,
     k |-> NextCell(s.board, s.k, s.beta <= Max(s.alpha, r.score))]

MaxCell[s \in LoopStates, r \in Results] == MaxUpdate(s, r)

\* the maximizing loops from the Empty cell s.k on
MaxLoop[s \in LoopStates] ==
    IF s.k = 10 THEN [score |-> s.best_score, board |-> s.board]
    ELSE MaxLoop[MaxCell[s, minimax(Place(s.board, RowOf(s.k), ColOf(s.k), "O"),
                                    s.depth + 1, FALSE, s.alpha, s.beta)]]

\* MinUpdate changed: the break is taken after every cell
MinUpdateEager(s, r) ==
    [board |-> Place(r.board, RowOf(s.k), ColOf(s.k), Empty),
     depth |-> s.depth,
     best_score |-> Min(s.best_score, r.score),
     alpha |-> s.alpha,
     beta |-> Min(s.beta, r.score),
     k |-> NextCell(s.board, s.k, TRUE)]

\* the body of the minimizing loops once the recursive call has returned r
MinUpdate(s, r) ==
    [board |-> Place(r.board, RowOf(s.k), ColOf(s.k), Empty),
     depth |-> s.depth,
     best_score |-> Min(s.best_score, r.score),
     alpha |-> s.alpha,
     beta |-> Min(s.beta, r.score),
     k |-> NextCell(s.board, s.k, Min(s.beta, r.score) <= s.alpha)]

MinCell[s \in LoopStates, r \in Results] == MinUpdate(s, r)

\* the minimizing loops from the Empty cell s.k on
MinLoop[s \in LoopStates] ==
    IF s.k = 10 THEN [score |-> s.best_score, board |-> s.board]
    ELSE MinLoop[MinCell[s, minimax(Place(s.board, RowOf(s.k), ColOf(s.k), "X"),
                                    s.depth + 1, TRUE, s.alpha, s.beta)]]

\* ScoreX changed: a loss scores the same at every depth
ScoreXFlat(depth) == -10

\* ScoreX changed: the sign of a loss is wrong
ScoreXSign(depth) == 10 - depth

\* ScoreX changed: a loss scores as a draw
ScoreXDraw(depth) == 0

\* the terminal scores
ScoreX(depth) == -10 + depth

ScoreO(depth) == 10 - depth

Score(winner, depth) ==
    IF winner = "X" THEN ScoreX(depth)
    ELSE IF winner = "O" THEN ScoreO(depth)
    ELSE 0

\* the frame of a call: its parameters and its local winner
MinimaxArgs ==
    [board : AllBoards, depth : Nat, is_maximizing : BOOLEAN, alpha : Int,
     beta : Int, winner : {"X", "O", "Draw", None}]

\* the state in which a branch of the call with frame a enters its loops
EnterLoops(a, best_score) ==
    [board |-> a.board, depth |-> a.depth, best_score |-> best_score,
     alpha |-> a.alpha, beta |-> a.beta, k |-> NextEmpty(a.board, 1)]

\* the body of minimax, after "winner, _ = check_winner(board)"
MinimaxCall[a \in MinimaxArgs] ==
    IF a.winner # None
    THEN [score |-> Score(a.winner, a.depth), board |-> a.board]
    ELSE IF a.is_maximizing THEN MaxLoop[EnterLoops(a, -Inf)]
    ELSE MinLoop[EnterLoops(a, Inf)]

minimax(b, depth, is_maximizing, alpha, beta) ==
    MinimaxCall[[board |-> b, depth |-> depth, is_maximizing |-> is_maximizing,
                 alpha |-> alpha, beta |-> beta,
                 winner |-> check_winner(b).winner]]

----------------------------------------------------------------------------
(* best_move: the set of results the call can produce, each the move and   *)
(* the board as the call leaves it; random.choice makes it a set.  The     *)
(* state s of its loops is board, best_score, move and the cell k.         *)

BestStates ==
    [board : AllBoards, best_score : Int, move : {NoMove} \cup (Idx \X Idx),
     k : 1..10]

\* BestUpdate changed: a later cell with an equal score replaces an earlier one
BestUpdateLast(s, r) ==
    [board |-> Place(r.board, RowOf(s.k), ColOf(s.k), Empty),
     best_score |-> Max(s.best_score, r.score),
     move |-> IF r.score >= s.best_score
              THEN <<RowOf(s.k), ColOf(s.k)>> ELSE s.move,
     k |-> NextEmpty(s.board, s.k + 1)]

\* BestUpdate changed: the first Empty cell is kept whatever the scores
BestUpdateFirstCell(s, r) ==
    [board |-> Place(r.board, RowOf(s.k), ColOf(s.k), Empty),
     best_score |-> Max(s.best_score, r.score),
     move |-> IF s.move = NoMove THEN <<RowOf(s.k), ColOf(s.k)>> ELSE s.move,
     k |-> NextEmpty(s.board, s.k + 1)]

\* BestUpdate changed: best_score is not kept, so every scored cell replaces
\* the move
BestUpdateNoScore(s, r) ==
    [board |-> Place(r.board, RowOf(s.k), ColOf(s.k), Empty),
     best_score |-> s.best_score,
     move |-> IF r.score > s.best_score THEN <<RowOf(s.k), ColOf(s.k)>> ELSE s.move,
     k |-> NextEmpty(s.board, s.k + 1)]

\* the body of best_move's loops once the call of minimax has returned r
BestUpdate(s, r) ==
    [board |-> Place(r.board, RowOf(s.k), ColOf(s.k), Empty),
     best_score |-> Max(s.best_score, r.score),
     move |-> IF r.score > s.best_score
              THEN <<RowOf(s.k), ColOf(s.k)>> ELSE s.move,
     k |-> NextEmpty(s.board, s.k + 1)]

BestCell[s \in BestStates, r \in Results] == BestUpdate(s, r)

\* best_move's loops from the Empty cell s.k on
BestLoop[s \in BestStates] ==
    IF s.k = 10 THEN [move |-> s.move, board |-> s.board]
    ELSE BestLoop[BestCell[s, minimax(Place(s.board, RowOf(s.k), ColOf(s.k), "O"),
                                      0, FALSE, -Inf, Inf)]]

best_move(b) ==
    IF \A i \in Idx : \A j \in Idx : b[i][j] = Empty
    THEN {[move |-> <<i, j>>, board |-> b] : i \in Idx, j \in Idx}
    ELSE {BestLoop[[board |-> b, best_score |-> -Inf, move |-> NoMove,
                    k |-> NextEmpty(b, 1)]]}

----------------------------------------------------------------------------
(* The handlers, as functions of the globals g; each returns the set of    *)
(* globals the call can leave                                              *)

Globals ==
    [board |-> board, buttons |-> buttons, current_player |-> current_player,
     is_empty_grid |-> is_empty_grid, ai_start_button |-> ai_start_button,
     status_label |-> status_label, timers |-> timers]

draw_winning_line(btns, winning_positions) ==
    [i \in Idx |-> [j \in Idx |->
        IF \E k \in 1..Len(winning_positions) : winning_positions[k] = <<i, j>>
        THEN [btns[i][j] EXCEPT !.bg = BG_WIN]
        ELSE btns[i][j]]]

\* GameOver changed: no reset_game is scheduled
GameOverNoTimer(g, w) ==
    IF w.winner = "Draw"
    THEN [g EXCEPT !.status_label = "It's a draw!"]
    ELSE [g EXCEPT !.status_label = IF w.winner = "X" THEN "X wins!" ELSE "O wins!",
                   !.buttons = draw_winning_line(@, w.positions)]

\* the branch "if winner:" of handle_click and of ai_move
GameOver(g, w) ==
    IF w.winner = "Draw"
    THEN [g EXCEPT !.status_label = "It's a draw!", !.timers = @ + 1]
    ELSE [g EXCEPT !.status_label = IF w.winner = "X" THEN "X wins!" ELSE "O wins!",
                   !.buttons = draw_winning_line(@, w.positions),
                   !.timers = @ + 1]

\* AiPlaces changed: the turn is not given back to the human
AiPlacesKeepsTurn(g, r) ==
    IF r.move # NoMove
    THEN LET g1 == [g EXCEPT !.board = Place(r.board, r.move[1], r.move[2], "O"),
                             !.buttons[r.move[1]][r.move[2]].text = "O"]
             w == check_winner(g1.board)
         IN  IF w.winner # None
             THEN GameOver(g1, w)
             ELSE g1
    ELSE [g EXCEPT !.board = r.board]

\* ai_move continued after move = best_move(board) returned r
AiPlaces(g, r) ==
    IF r.move # NoMove
    THEN LET g1 == [g EXCEPT !.board = Place(r.board, r.move[1], r.move[2], "O"),
                             !.buttons[r.move[1]][r.move[2]].text = "O"]
             w == check_winner(g1.board)
         IN  IF w.winner # None
             THEN GameOver(g1, w)
             ELSE [g1 EXCEPT !.current_player = "X"]
    ELSE [g EXCEPT !.board = r.board]

ai_move(g) == {AiPlaces(g, r) : r \in best_move(g.board)}

\* handle_click changed: the test that the cell is Empty is missing
handle_click_unchecked(g, row, col) ==
    LET g1 == [g EXCEPT !.board[row][col] = g.current_player,
                        !.buttons[row][col].text = g.current_player]
        w == check_winner(g1.board)
    IN  IF w.winner # None
        THEN {GameOver(g1, w)}
        ELSE LET g2 == [g1 EXCEPT
                           !.current_player = IF @ = "X" THEN "O" ELSE "X",
                           !.is_empty_grid = FALSE,
                           !.ai_start_button = "disabled"]
             IN  IF g2.current_player = "O" THEN ai_move(g2) ELSE {g2}

handle_click(g, row, col) ==
    IF g.board[row][col] = Empty
    THEN LET g1 == [g EXCEPT !.board[row][col] = g.current_player,
                             !.buttons[row][col].text = g.current_player]
             w == check_winner(g1.board)
         IN  IF w.winner # None
             THEN {GameOver(g1, w)}
             ELSE LET g2 == [g1 EXCEPT
                                !.current_player = IF @ = "X" THEN "O" ELSE "X",
                                !.is_empty_grid = FALSE,
                                !.ai_start_button = "disabled"]
                  IN  IF g2.current_player = "O" THEN ai_move(g2) ELSE {g2}
    ELSE {g}

reset_game(g) ==
    [board |-> EmptyBoard,
     is_empty_grid |-> TRUE,
     buttons |-> ClearButtons,
     current_player |-> "X",
     status_label |-> "",
     ai_start_button |-> "normal",
     timers |-> g.timers]

\* start_ai_first changed: the AI Starts button is left as it is
start_ai_first_enabled(g) == ai_move([g EXCEPT !.current_player = "O"])

start_ai_first(g) ==
    {[g1 EXCEPT !.ai_start_button = "disabled"] :
        g1 \in ai_move([g EXCEPT !.current_player = "O"])}

----------------------------------------------------------------------------
(* The game: the Tk main loop dispatching clicks, button presses, timers   *)

Assign(g) ==
    /\ board' = g.board
    /\ buttons' = g.buttons
    /\ current_player' = g.current_player
    /\ is_empty_grid' = g.is_empty_grid
    /\ ai_start_button' = g.ai_start_button
    /\ status_label' = g.status_label
    /\ timers' = g.timers

Init ==
    /\ board = EmptyBoard
    /\ buttons = ClearButtons
    /\ current_player = "X"
    /\ is_empty_grid = TRUE
    /\ ai_start_button = "normal"
    /\ status_label = ""
    /\ timers = 0
    /\ call = [op |-> "main"]
    /\ ret = None

\* a click on grid button (row, col)
HandleClick(row, col) ==
    /\ call' = [op |-> "handle_click", row |-> row, col |-> col]
    /\ ret' = None
    /\ \E g \in handle_click(Globals, row, col) :
         /\ g.timers <= MaxTimers
         /\ Assign(g)

\* a press of the Reset button
ResetButton ==
    /\ Assign(reset_game(Globals))
    /\ call' = [op |-> "reset_game"]
    /\ ret' = None

\* a pending root.after(1500, reset_game) callback fires
TimerFires ==
    /\ timers > 0
    /\ Assign([reset_game(Globals) EXCEPT !.timers = @ - 1])
    /\ call' = [op |-> "reset_game"]
    /\ ret' = None

\* a press of the AI Starts button, which Tk dispatches only while enabled
StartAiFirst ==
    /\ ai_start_button = "normal"
    /\ \E g \in start_ai_first(Globals) :
         /\ g.timers <= MaxTimers
         /\ Assign(g)
    /\ call' = [op |-> "start_ai_first"]
    /\ ret' = None

Click == \E row \in Idx : \E col \in Idx : HandleClick(row, col)

Next == Click \/ ResetButton \/ TimerFires \/ StartAiFirst

Spec == Init /\ [][Next]_vars

\* the games the human opens: the AI Starts button is never pressed
NextHumanFirst == Click \/ ResetButton \/ TimerFires

SpecHumanFirst == Init /\ [][NextHumanFirst]_vars

\* the human clicks only once a game has been opened
ClickInGame == board # EmptyBoard /\ Click

\* the games the machine opens: every game starts with the AI Starts button
NextAiFirst == StartAiFirst \/ ClickInGame \/ ResetButton \/ TimerFires

SpecAiFirst == Init /\ [][NextAiFirst]_vars

\* the game with Tk's event loop firing every timer it holds
SpecFair == Init /\ [][Next]_vars /\ WF_vars(TimerFires)

----------------------------------------------------------------------------
(* The functions on their own: a call of check_winner, of minimax or of    *)
(* best_move on a board drawn from a bounded set                           *)

EmptyCount(b) == Cardinality({p \in Idx \X Idx : b[p[1]][p[2]] = Empty})

Count(b, v) == Cardinality({p \in Idx \X Idx : b[p[1]][p[2]] = v})

InitOn(boards) ==
    /\ board \in boards
    /\ buttons = ClearButtons
    /\ current_player = "X"
    /\ is_empty_grid = TRUE
    /\ ai_start_button = "normal"
    /\ status_label = ""
    /\ timers = 0
    /\ call = [op |-> "main"]
    /\ ret = None

Untouched ==
    UNCHANGED <<buttons, current_player, is_empty_grid, ai_start_button,
                status_label, timers>>

CallCheckWinner ==
    /\ call.op = "main"
    /\ call' = [op |-> "check_winner", board |-> board]
    /\ ret' = check_winner(board)
    /\ UNCHANGED board
    /\ Untouched

InitEval == InitOn(AllBoards)

SpecEval == InitEval /\ [][CallCheckWinner]_vars

\* the windows minimax is called with: the full one and the two half-open ones
Windows == {<<-Inf, Inf>>, <<-Inf, 0>>, <<0, Inf>>}

CallMinimax(depth, is_maximizing, alpha, beta) ==
    /\ call.op = "main"
    /\ \E r \in {minimax(board, depth, is_maximizing, alpha, beta)} :
         /\ board' = r.board
         /\ ret' = r.score
    /\ call' = [op |-> "minimax", board |-> board, depth |-> depth,
                is_maximizing |-> is_maximizing, alpha |-> alpha, beta |-> beta]
    /\ Untouched

CallBestMove ==
    /\ call.op = "main"
    /\ \E r \in best_move(board) :
         /\ board' = r.board
         /\ ret' = r.move
    /\ call' = [op |-> "best_move", board |-> board]
    /\ Untouched

Search ==
    \E depth \in 0..MaxDepth, is_maximizing \in BOOLEAN, w \in Windows :
        CallMinimax(depth, is_maximizing, w[1], w[2])

InitSearch == InitOn({b \in AllBoards : EmptyCount(b) <= MaxSearchEmpty})

NextSearch == Search \/ CallBestMove

SpecSearch == InitSearch /\ [][NextSearch]_vars

InitMove == InitOn({b \in AllBoards : EmptyCount(b) <= MaxEmpty})

SpecMove == InitMove /\ [][CallBestMove]_vars

\* the boards ai_move hands to best_move in a game: in progress, not empty,
\* with as many X as O (the machine opened) or one X more (the human opened)
ReplyBoards ==
    {b \in AllBoards : /\ b # EmptyBoard
                       /\ check_winner(b).winner = None
                       /\ Count(b, "X") - Count(b, "O") \in {0, 1}}

InitReply == InitOn(ReplyBoards)

SpecReply == InitReply /\ [][CallBestMove]_vars

----------------------------------------------------------------------------
(* The eight lines, stated apart from check_winner's scan *)

RowLine(i) == <<<<i, 0>>, <<i, 1>>, <<i, 2>>>>

ColLine(j) == <<<<0, j>>, <<1, j>>, <<2, j>>>>

MainDiagonal == <<<<0, 0>>, <<1, 1>>, <<2, 2>>>>

AntiDiagonal == <<<<0, 2>>, <<1, 1>>, <<2, 0>>>>

\* row i then column i for i = 0, 1, 2, then the diagonals
InterleavedOrder ==
    <<RowLine(0), ColLine(0), RowLine(1), ColLine(1), RowLine(2), ColLine(2),
      MainDiagonal, AntiDiagonal>>

\* the three rows, the three columns, then the diagonals
RowsFirstOrder ==
    <<RowLine(0), RowLine(1), RowLine(2), ColLine(0), ColLine(1), ColLine(2),
      MainDiagonal, AntiDiagonal>>

At(b, p) == b[p[1]][p[2]]

\* the line holds three equal non-Empty cells
Qualifies(b, line) ==
    /\ At(b, line[1]) # Empty
    /\ At(b, line[1]) = At(b, line[2])
    /\ At(b, line[2]) = At(b, line[3])

Qualifying(b, order) == {k \in 1..8 : Qualifies(b, order[k])}

Least(S) == CHOOSE k \in S : \A m \in S : k <= m

Full(b) == \A i \in Idx : \A j \in Idx : b[i][j] # Empty

Checked == call.op = "check_winner"

----------------------------------------------------------------------------
(* Claims about check_winner, under SpecEval *)

\* C4: on every board, check_winner returns a winner "X" or "O" iff one of
\* the 8 lines holds three equal non-Empty cells, and then the positions
\* returned are the coordinates of a line whose cells all hold that symbol.
C4_WinIffLine ==
    Checked =>
        /\ (ret.winner \in {"X", "O"}) <=> (Qualifying(call.board, InterleavedOrder) # {})
        /\ ret.winner \in {"X", "O"} =>
             \E k \in 1..8 :
                /\ ret.positions = InterleavedOrder[k]
                /\ \A n \in 1..3 : At(call.board, ret.positions[n]) = ret.winner

C4_Witness ==
    /\ Checked
    /\ ret.winner = "O"
    /\ ret.positions = AntiDiagonal
    /\ Cardinality(Qualifying(call.board, InterleavedOrder)) = 1

\* C5: on every board, check_winner returns "Draw" iff every cell is
\* non-Empty and no line holds three equal symbols; with no such line and an
\* Empty cell it returns (None, []).
C5_DrawIffFullNoLine ==
    Checked =>
        /\ (ret.winner = "Draw") <=>
              (Full(call.board) /\ Qualifying(call.board, InterleavedOrder) = {})
        /\ (~Full(call.board) /\ Qualifying(call.board, InterleavedOrder) = {}) =>
              ret = [winner |-> None, positions |-> <<>>]

C5_Witness ==
    /\ Checked
    /\ ret = [winner |-> "Draw", positions |-> <<>>]
    /\ Count(call.board, "X") = 5
    /\ Count(call.board, "O") = 4

\* C6: when more than one line qualifies, check_winner returns the first of
\* them in the order row 0, column 0, row 1, column 1, row 2, column 2, main
\* diagonal, anti-diagonal, with that line's symbol.
C6_FirstInterleaved ==
    (Checked /\ Cardinality(Qualifying(call.board, InterleavedOrder)) > 1) =>
        LET first == InterleavedOrder[Least(Qualifying(call.board, InterleavedOrder))]
        IN  /\ ret.positions = first
            /\ ret.winner = At(call.board, first[1])

\* column 0 and row 1 both qualify, and the column is what is returned
C6_Witness ==
    /\ Checked
    /\ Qualifying(call.board, InterleavedOrder) = {2, 3}
    /\ ret.positions = ColLine(0)

\* C7 as stated: when more than one line qualifies, check_winner returns the
\* first of them in the order row 0, row 1, row 2, column 0, column 1,
\* column 2, main diagonal, anti-diagonal; a qualifying row wins over a
\* qualifying column.
C7_FirstRowsFirst ==
    (Checked /\ Cardinality(Qualifying(call.board, RowsFirstOrder)) > 1) =>
        LET first == RowsFirstOrder[Least(Qualifying(call.board, RowsFirstOrder))]
        IN  /\ ret.positions = first
            /\ ret.winner = At(call.board, first[1])

QualifyingRows(b) == {i \in Idx : Qualifies(b, RowLine(i))}

QualifyingCols(b) == {j \in Idx : Qualifies(b, ColLine(j))}

\* C7 amended: the rows and columns are scanned interleaved, row i before
\* column i; when a row and a column both qualify, the row is returned iff
\* the first qualifying row's index is at most the first qualifying column's
\* index, and otherwise that column is; a qualifying row or column wins over
\* both diagonals.
C7_RowBeforeColumnPerIndex ==
    Checked =>
        LET rows == QualifyingRows(call.board)
            cols == QualifyingCols(call.board)
        IN  /\ (rows # {} /\ cols # {}) =>
                  ret.positions = IF Least(rows) <= Least(cols)
                                  THEN RowLine(Least(rows))
                                  ELSE ColLine(Least(cols))
            /\ (rows # {} /\ cols = {}) => ret.positions = RowLine(Least(rows))
            /\ (rows = {} /\ cols # {}) => ret.positions = ColLine(Least(cols))
            /\ (rows # {} \/ cols # {}) => ret.winner = At(call.board, ret.positions[1])

\* row 2 and column 1 both qualify, and column 1 is what is returned
C7_Witness ==
    /\ Checked
    /\ QualifyingRows(call.board) = {2}
    /\ QualifyingCols(call.board) = {1}
    /\ ret.positions = ColLine(1)

----------------------------------------------------------------------------
(* Claims about minimax and best_move called on their own *)

\* C2: when a call of minimax or of best_move returns, the board is
\* cell-for-cell the board at the moment of the call, on every exit path,
\* the pruning breaks included (under SpecSearch).
C2_BoardRestored ==
    call.op \in {"minimax", "best_move"} => board = call.board

\* a maximizing call on a non-terminal board that returned at least beta: the
\* child that raised alpha to beta made the loop take its break
C2_Witness ==
    /\ call.op = "minimax"
    /\ call.is_maximizing
    /\ check_winner(call.board).winner = None
    /\ EmptyCount(call.board) = 4
    /\ ret >= call.beta
    /\ board = call.board

\* the Empty cells at which v completes a line of three
WinCells(b, v) ==
    {p \in Idx \X Idx :
        /\ At(b, p) = Empty
        /\ \E k \in 1..8 :
              \A n \in 1..3 :
                 At(Place(b, p[1], p[2], v), InterleavedOrder[k][n]) = v}

NonTerminal(b) == Qualifying(b, InterleavedOrder) = {} /\ ~Full(b)

\* O is to move: X has made as many moves as O, or one more
MachineToMove(b) == Count(b, "X") - Count(b, "O") \in {0, 1}

\* the first cell of a set in row-major order
FirstRowMajor(S) == CHOOSE p \in S : \A q \in S : 3 * p[1] + p[2] <= 3 * q[1] + q[2]

\* C9: on a non-empty, non-terminal board with O to move, where O has no
\* cell that wins at once and X has exactly one Empty cell c that would
\* complete an X line, best_move returns c (under SpecMove).
C9_BlocksTheThreat ==
    ( /\ call.op = "best_move"
      /\ call.board # EmptyBoard
      /\ NonTerminal(call.board)
      /\ MachineToMove(call.board)
      /\ WinCells(call.board, "O") = {}
      /\ Cardinality(WinCells(call.board, "X")) = 1 )
    => WinCells(call.board, "X") = {ret}

\* the scenario of the specification: X on (0,0) and (0,1), one O elsewhere
C9_Witness ==
    /\ call.op = "best_move"
    /\ call.board[0][0] = "X"
    /\ call.board[0][1] = "X"
    /\ Count(call.board, "X") = 2
    /\ Count(call.board, "O") = 1
    /\ WinCells(call.board, "O") = {}
    /\ WinCells(call.board, "X") = {<<0, 2>>}
    /\ ret = <<0, 2>>

\* C10: on a non-empty, non-terminal board with O to move where some Empty
\* cell completes an O line, best_move returns the first such cell in
\* row-major order, so the move ends the game with an O win (under SpecMove).
C10_TakesTheWin ==
    ( /\ call.op = "best_move"
      /\ call.board # EmptyBoard
      /\ NonTerminal(call.board)
      /\ MachineToMove(call.board)
      /\ WinCells(call.board, "O") # {} )
    => /\ ret = FirstRowMajor(WinCells(call.board, "O"))
       /\ check_winner(Place(call.board, ret[1], ret[2], "O")).winner = "O"

\* O can win at two cells while X threatens too; the first winning cell is taken
C10_Witness ==
    /\ call.op = "best_move"
    /\ NonTerminal(call.board)
    /\ MachineToMove(call.board)
    /\ Cardinality(WinCells(call.board, "O")) = 2
    /\ WinCells(call.board, "X") # {}
    /\ ret = FirstRowMajor(WinCells(call.board, "O"))
    /\ ret # FirstRowMajor({p \in Idx \X Idx : At(call.board, p) = Empty})

----------------------------------------------------------------------------
(* Claims about the game *)

\* C1: in the games that start from the empty board with the human moving
\* first, whatever Empty cells the human clicks, no reachable board makes
\* check_winner report "X": the machine never loses (under SpecHumanFirst).
C1_MachineNeverLoses == check_winner(board).winner # "X"

\* a game played to its end: the human's fifth mark fills the board, a draw
C1_Witness ==
    /\ call.op = "handle_click"
    /\ check_winner(board).winner = "Draw"
    /\ status_label = "It's a draw!"
    /\ Count(board, "X") = 5
    /\ Count(board, "O") = 4

\* C3 as stated: once check_winner reports a win or a draw, a handle_click
\* on any cell changes neither the board nor current_player.
C3_GameOverRejectsClicks ==
    [][(check_winner(board).winner # None /\ call'.op = "handle_click")
          => (board' = board /\ current_player' = current_player)]_vars

\* C8: handle_click on a cell that is not Empty leaves the board,
\* current_player, is_empty_grid, the AI Starts button, the status label and
\* the pending reset timers unchanged, and no machine move is made.
C8_OccupiedClickRejected ==
    [][(call'.op = "handle_click" /\ board[call'.row][call'.col] # Empty)
          => UNCHANGED <<board, buttons, current_player, is_empty_grid,
                         ai_start_button, status_label, timers>>]_vars

\* the last event was a click on a cell that holds the machine's O, in a
\* game in progress: the click was refused
C8_Witness ==
    /\ call.op = "handle_click"
    /\ board[call.row][call.col] = "O"
    /\ check_winner(board).winner = None
    /\ current_player = "X"

\* C11: in every state in which the AI Starts button is enabled the board is
\* entirely Empty and current_player is "X"; start_ai_first therefore runs
\* on the empty board only, it leaves the button disabled, and only
\* reset_game enables the button again (under Spec).
C11_AiStartsOnEmptyBoardOnly ==
    [][ /\ ai_start_button = "normal" =>
              (board = EmptyBoard /\ current_player = "X")
        /\ ai_start_button' = "normal" =>
              (board' = EmptyBoard /\ current_player' = "X")
        /\ call'.op = "start_ai_first" =>
              (board = EmptyBoard /\ ai_start_button' = "disabled")
        /\ (ai_start_button = "disabled" /\ ai_start_button' = "normal") =>
              call'.op = "reset_game" ]_vars

\* the machine has opened the game: one O, no X, the button disabled
C11_Witness ==
    /\ call.op = "start_ai_first"
    /\ ai_start_button = "disabled"
    /\ Count(board, "O") = 1
    /\ Count(board, "X") = 0
    /\ current_player = "X"

----------------------------------------------------------------------------
(* A reference for the search: the depth-aware minimax value with the      *)
(* terminal scores of minimax and no pruning, and an opponent who plays it *)

EmptyCells(b) == {p \in Idx \X Idx : At(b, p) = Empty}

SetMax[S \in SUBSET Int] == CHOOSE x \in S : \A y \in S : y <= x

SetMin[S \in SUBSET Int] == CHOOSE x \in S : \A y \in S : x <= y

RefScore(winner, depth) ==
    IF winner = "X" THEN -10 + depth ELSE IF winner = "O" THEN 10 - depth ELSE 0

RefMinimax[b \in AllBoards, depth \in Nat, is_maximizing \in BOOLEAN] ==
    IF check_winner(b).winner # None
    THEN RefScore(check_winner(b).winner, depth)
    ELSE IF is_maximizing
    THEN SetMax[{RefMinimax[Place(b, p[1], p[2], "O"), depth + 1, FALSE] :
                    p \in EmptyCells(b)}]
    ELSE SetMin[{RefMinimax[Place(b, p[1], p[2], "X"), depth + 1, TRUE] :
                    p \in EmptyCells(b)}]

\* the Empty cells of b with the value the human gets by playing there
HumanValues(b) ==
    {<<p, RefMinimax[Place(b, p[1], p[2], "X"), 0, TRUE]>> : p \in EmptyCells(b)}

\* the cells of a set of <<cell, value>> pairs that have the least value
Lowest[scored \in SUBSET ((Idx \X Idx) \X Int)] ==
    {x[1] : x \in {y \in scored : \A z \in scored : y[2] <= z[2]}}

\* the human's minimax-optimal cells on b
HumanOptimal(b) == Lowest[HumanValues(b)]

\* the human clicks a minimax-optimal cell of a game in progress
OptimalClick ==
    /\ check_winner(board).winner = None
    /\ current_player = "X"
    /\ \E p \in HumanOptimal(board) : HandleClick(p[1], p[2])

NextOptimal == OptimalClick \/ TimerFires

\* the human moves in a game in progress; NextOptimal allows such a step
\* only on a minimax-optimal cell, and one exists whenever a cell is Empty
HumanMoves ==
    /\ check_winner(board).winner = None
    /\ current_player = "X"
    /\ Click

\* the human opens, keeps playing and plays optimally; Tk fires the timer of
\* a finished game
SpecOptimal ==
    Init /\ [][NextOptimal]_vars /\ WF_vars(HumanMoves) /\ WF_vars(TimerFires)

\* C12: from the empty board with the human moving first, when the human
\* always plays a minimax-optimal move and the machine answers with
\* best_move, no board shows an X win or an O win and every game that has
\* begun ends with check_winner reporting "Draw" (under SpecOptimal).
C12_OptimalPlayDraws ==
    /\ [](check_winner(board).winner \notin {"X", "O"})
    /\ (board # EmptyBoard) ~> (check_winner(board).winner = "Draw")

\* a game of optimal play at its end: the board is full, a draw is shown
C12_Witness ==
    /\ call.op = "handle_click"
    /\ check_winner(board).winner = "Draw"
    /\ status_label = "It's a draw!"
    /\ timers = 1

\* the state main and reset_game leave: a fresh game
Fresh ==
    /\ board = EmptyBoard
    /\ current_player = "X"
    /\ status_label = ""
    /\ ai_start_button = "normal"

\* C13: whenever the board shows a finished game (a win or a draw) a
\* reset_game timer is pending, and, the timers firing, a state follows in
\* which every cell is Empty, current_player is "X", the status label is
\* cleared and the AI Starts button is enabled (under SpecFair).
C13_GameOverIsReset ==
    /\ [](check_winner(board).winner # None => timers > 0)
    /\ [](status_label # "" => timers > 0)
    /\ (check_winner(board).winner # None) ~> Fresh

\* a finished game with its result shown and its reset pending
C13_Witness ==
    /\ check_winner(board).winner = "O"
    /\ status_label = "O wins!"
    /\ ai_start_button = "disabled"
    /\ timers = 1

\* the loop states a maximizing node goes through from s on: s, then the
\* state after each cell the loops try
MaxStates[s \in LoopStates] ==
    IF s.k = 10
    THEN {s}
    ELSE {s} \cup MaxStates[MaxCell[s, minimax(
                      Place(s.board, RowOf(s.k), ColOf(s.k), "O"),
                      s.depth + 1, FALSE, s.alpha, s.beta)]]

MinStates[s \in LoopStates] ==
    IF s.k = 10
    THEN {s}
    ELSE {s} \cup MinStates[MinCell[s, minimax(
                      Place(s.board, RowOf(s.k), ColOf(s.k), "X"),
                      s.depth + 1, TRUE, s.alpha, s.beta)]]

\* the loop states of the node of a call c of minimax on a board in progress
NodeStates(c) ==
    IF c.is_maximizing
    THEN MaxStates[EnterLoops(c, -Inf)]
    ELSE MinStates[EnterLoops(c, Inf)]

\* C14: in a node of minimax, once beta <= alpha holds after a cell, no
\* further Empty cell of that node is tried (none later in the row, none in
\* a later row: the loops are over, k = 10) and the node returns the best
\* score it has at that point.
C14_CutoffStopsNode ==
    (call.op = "minimax" /\ check_winner(call.board).winner = None) =>
        \A s \in NodeStates(call) :
            s.beta <= s.alpha => (s.k = 10 /\ ret = s.best_score)

\* the unpruned choice: the first cell in row-major order among the Empty
\* cells of b whose reference value is the greatest
RefValues(b) ==
    {<<p, RefMinimax[Place(b, p[1], p[2], "O"), 0, FALSE]>> : p \in EmptyCells(b)}

Highest[scored \in SUBSET ((Idx \X Idx) \X Int)] ==
    {x[1] : x \in {y \in scored : \A z \in scored : z[2] <= y[2]}}

RefBestMove(b) == FirstRowMajor(Highest[RefValues(b)])

\* C15: on every board in progress with the machine to move, for every Empty
\* cell best_move tries, minimax with its cutoffs on the board with O there
\* (depth 0, minimizing, window -Inf..Inf) returns the value the unpruned
\* depth-aware reference minimax returns, and best_move returns the cell the
\* unpruned search chooses (under SpecReply).
C15_CutoffsKeepTheValue ==
    call.op = "best_move" =>
        /\ \A p \in EmptyCells(call.board) :
              minimax(Place(call.board, p[1], p[2], "O"), 0, FALSE, -Inf, Inf).score
                  = RefMinimax[Place(call.board, p[1], p[2], "O"), 0, FALSE]
        /\ ret = RefBestMove(call.board)

\* a reply to the human's opening in the centre: eight cells to try
C15_Witness ==
    /\ call.op = "best_move"
    /\ call.board = [EmptyBoard EXCEPT ![1][1] = "X"]
    /\ ret = <<0, 0>>

\* the score best_move gets for the Empty cell p of b
CellScore(b, p) == minimax(Place(b, p[1], p[2], "O"), 0, FALSE, -Inf, Inf).score

CellScores(b) == {<<p, CellScore(b, p)>> : p \in EmptyCells(b)}

\* C16: on a board that is not empty and has an Empty cell, best_move
\* returns the first cell in row-major order among the Empty cells whose
\* minimax score is the greatest: a later cell of equal score never replaces
\* an earlier one (under SpecMove).
C16_FirstBestCellIsKept ==
    ( /\ call.op = "best_move"
      /\ call.board # EmptyBoard
      /\ EmptyCells(call.board) # {} )
    => ret = FirstRowMajor(Highest[CellScores(call.board)])

\* two corners tie for the best score; the earlier one is returned
C16_Witness ==
    /\ call.op = "best_move"
    /\ call.board = [EmptyBoard EXCEPT ![1][1] = "X", ![0][0] = "O", ![2][2] = "X"]
    /\ ret = <<0, 2>>
    /\ CellScore(call.board, <<2, 0>>) = CellScore(call.board, <<0, 2>>)

\* what a human move on the Empty cell <<row, col>> of a game in progress
\* must lead to, from board b to board c with the turn t
HumanTurn(b, row, col, c, t) ==
    IF check_winner(Place(b, row, col, "X")).winner # None
    THEN c = Place(b, row, col, "X")
    ELSE \E q \in EmptyCells(Place(b, row, col, "X")) :
            /\ c = Place(Place(b, row, col, "X"), q[1], q[2], "O")
            /\ check_winner(c).winner = None => t = "X"

\* C17: a handle_click on an Empty cell while the game is in progress and
\* current_player is "X" puts one X on the clicked cell; if that ends the
\* game the machine does not move; otherwise one O is put on a cell that was
\* Empty and, unless that ends the game, current_player is "X" again; no
\* other cell changes (under Spec).
C17_OneHumanMoveOneReply ==
    [][ ( /\ call'.op = "handle_click"
          /\ board[call'.row][call'.col] = Empty
          /\ check_winner(board).winner = None
          /\ current_player = "X" )
        => HumanTurn(board, call'.row, call'.col, board', current_player') ]_vars

\* the human's second move has been answered: two X, two O, the human to move
C17_Witness ==
    /\ call.op = "handle_click"
    /\ board[call.row][call.col] = "X"
    /\ Count(board, "X") = 2
    /\ Count(board, "O") = 2
    /\ check_winner(board).winner = None
    /\ current_player = "X"

\* C18: whenever a reset_game scheduled by root.after fires, the board it
\* clears shows a finished game or is entirely Empty, whatever clicks and
\* button presses came before it.
C18_TimerClearsFinishedGame ==
    [][ timers' < timers =>
            (check_winner(board).winner # None \/ board = EmptyBoard) ]_vars

\* C19: marks alternate: after every event the numbers of X and of O on the
\* board differ by at most one, and the mark a handle_click puts on the Empty
\* cell the human clicked is an "X".
C19_MarksAlternate ==
    [][ /\ Count(board', "X") - Count(board', "O") \in {-1, 0, 1}
        /\ (call'.op = "handle_click" /\ board[call'.row][call'.col] = Empty)
               => board'[call'.row][call'.col] = "X" ]_vars

\* C20: when the machine opens through start_ai_first, whichever of the 9
\* cells best_move picks on the empty board and whatever cells the human
\* clicks afterwards, check_winner never reports "X" and no X win is shown
\* (under SpecAiFirst).
C20_OpeningNeverLoses ==
    /\ check_winner(board).winner # "X"
    /\ status_label # "X wins!"

\* a game the machine opened and won with its third mark
C20_Witness ==
    /\ check_winner(board).winner = "O"
    /\ Count(board, "O") = 3
    /\ Count(board, "X") = 2
    /\ status_label = "O wins!"

====
